---- MODULE Spec2Model ----
(***************************************************************************)
(* Model of Implementing_Router_Query.py: a Streamlit script that writes   *)
(* an uploaded PDF to a temporary file, builds (through st.cache_resource) *)
(* a router query engine over it, optionally answers one question, and     *)
(* unlinks the temporary file.  Every browser session runs the script,     *)
(* top to bottom, once per interaction; sessions share the filesystem and  *)
(* the cache of load_and_process_data.                                     *)
(***************************************************************************)
EXTENDS Naturals, Sequences, FiniteSets

\* ------------------------------------------------------------------ bounds
NumSessions == 2
NumPaths == 2
MaxRuns == 2
MaxCalls == 4
\* the longest list of choices a reply of the selector's LLM is taken to hold
MaxSelections == 2

Sessions == 1..NumSessions
\* the names tempfile can hand out (each stands for one random "tmpXXXXXXXX.pdf")
Paths == 1..NumPaths

\* ------------------------------------------------------------------ values
None == "None"
Contents == {"pdfA", "pdfB"}
Empty == "empty"
DefaultQuestion == "What is this document about?"
Questions == {DefaultQuestion, "Where is X mentioned?"}
NoPath == 0
NoFile == [absent |-> TRUE]
NoEntry == [nocache |-> TRUE]
NoEngine == [noengine |-> TRUE]
NoAnswer == [noanswer |-> TRUE]
NoCall == [nocall |-> TRUE]

\* query_engine_tools=[summary_tool, vector_tool]
QueryEngineTools == <<"summary_tool", "vector_tool">>
ToolSet == {QueryEngineTools[i] : i \in 1..Len(QueryEngineTools)}

VARIABLES
    fs,        \* the temp directory: path -> NoFile or [doc, by], by = the creating session
    cache,     \* st.cache_resource of load_and_process_data: path -> NoEntry or engine
    bodyRuns,  \* path -> number of times the body of load_and_process_data started
    built,     \* path -> number of times the body returned an engine
    allocs,    \* path -> number of times NamedTemporaryFile created this name
    nruns,     \* number of script runs started so far
    aborted,   \* number of runs in which a call raised after the file was created
    sess,      \* session -> the state of its current (or last) script run
    ncalls,    \* direct calls of load_and_process_data made so far (SpecCalls)
    last       \* outcome of the latest direct call (SpecCalls)

vars == <<fs, cache, bodyRuns, built, allocs, nruns, aborted, sess, ncalls, last>>

IdleRun ==
    [pc |-> "idle", upload |-> None, question |-> DefaultQuestion,
     clicked |-> FALSE, path |-> NoPath, engine |-> NoEngine, lookup |-> "none",
     read |-> None, queries |-> 0, sent |-> None, selected |-> <<>>, asked |-> 0,
     dispatched |-> {}, response |-> NoAnswer, rendered |-> NoAnswer,
     notice |-> FALSE, log |-> <<>>, raisedAt |-> "none", stoppedAt |-> "none",
     createdOver |-> NoFile, wroteTo |-> 0, removed |-> 0]

Init ==
    /\ fs = [p \in Paths |-> NoFile]
    /\ cache = [p \in Paths |-> NoEntry]
    /\ bodyRuns = [p \in Paths |-> 0]
    /\ built = [p \in Paths |-> 0]
    /\ allocs = [p \in Paths |-> 0]
    /\ nruns = 0
    /\ aborted = 0
    /\ sess = [s \in Sessions |-> IdleRun]
    /\ ncalls = 0
    /\ last = NoCall

Ended(r) == r.pc \in {"done", "aborted", "stopped"}
Live(r) == r.pc \notin {"idle", "done", "aborted", "stopped"}

\* ------------------------------------------------- load_and_process_data

\* the engine the body builds from what it read at `p`: RouterQueryEngine over
\* the two tools, both built from the same nodes
BuildEngine(p, doc, gen) ==
    [doc |-> doc, path |-> p, gen |-> gen, tools |-> QueryEngineTools]

\* st.cache_resource with max_entries=1: storing evicts every other entry
CacheStoreMaxOne(c, p, e) == [q \in Paths |-> IF q = p THEN e ELSE NoEntry]

\* st.cache_resource never stores: every call runs the body
CacheStoreNothing(c, p, e) == c

\* @st.cache_resource stores the returned engine under the argument's hash
CacheStore(c, p, e) == [c EXCEPT ![p] = e]

\* The outcomes of one whole call load_and_process_data(p), from entry to
\* return, with nothing else running meanwhile (SpecCalls):
\* a cache hit returns the stored engine without running the body; on a miss
\* the body runs, SimpleDirectoryReader raises when the file is absent, the
\* remote calls (embeddings) may raise, and only a returned engine is stored.
LoadOutcomes(p) ==
    IF cache[p] # NoEntry
    THEN {[kind |-> "hit", engine |-> cache[p], read |-> FALSE]}
    ELSE IF fs[p] = NoFile
    THEN {[kind |-> "raised", engine |-> NoEngine, read |-> FALSE]}
    ELSE {[kind |-> "built",
           engine |-> BuildEngine(p, fs[p].doc, bodyRuns[p] + 1), read |-> TRUE],
          [kind |-> "raised", engine |-> NoEngine, read |-> TRUE]}

\* the effect of outcome `o` of load_and_process_data(p) on the cache
LoadEffect(p, o) ==
    /\ cache' = IF o.kind = "built" THEN CacheStore(cache, p, o.engine) ELSE cache
    /\ bodyRuns' = IF o.kind = "hit" THEN bodyRuns
                   ELSE [bodyRuns EXCEPT ![p] = @ + 1]
    /\ built' = IF o.kind = "built" THEN [built EXCEPT ![p] = @ + 1] ELSE built

\* ------------------------------------------------------------ the script

Upd(s, r) == sess' = [sess EXCEPT ![s] = r]

SharedUnchanged == UNCHANGED <<fs, cache, bodyRuns, built, allocs, nruns, aborted, ncalls, last>>
CallsUnchanged == UNCHANGED <<ncalls, last>>

\* A run ended by Streamlit at an st.* call: when the session has asked for a
\* rerun meanwhile (the user touched a widget), the call ends the run there;
\* the rest of the script, line 97 included, is not executed.  `at` names the
\* place: "start" (lines 23, 73), "load" (line 81), "widgets" (lines 84-87),
\* "render" (lines 89-90), "spinner" (leaving the with block of line 87),
\* "info" (line 100).
Stopped(r, at) == [r EXCEPT !.pc = "stopped", !.stoppedAt = at]

\* A rerun of the script for session s (lines 1-75): st.file_uploader returns
\* the uploaded file of this run, or None; or Streamlit ends the run at
\* st.markdown (line 23) or at st.file_uploader (line 73).
StartRun(s) ==
    /\ sess[s].pc \in {"idle", "done", "aborted", "stopped"}
    /\ nruns < MaxRuns
    /\ \/ Upd(s, Stopped(IdleRun, "start"))
       \/ Upd(s, [IdleRun EXCEPT !.pc = "info"])
       \/ \E u \in Contents :
            Upd(s, [IdleRun EXCEPT !.pc = "mkstemp", !.upload = u])
    /\ nruns' = nruns + 1
    /\ UNCHANGED <<fs, cache, bodyRuns, built, allocs, aborted>>
    /\ CallsUnchanged

\* a temp-file creation without O_EXCL: any name, an existing file is truncated
CreateTempAnyName(s) ==
    LET r == sess[s] IN
    /\ r.pc = "mkstemp"
    /\ \E p \in Paths :
         /\ fs' = [fs EXCEPT ![p] = [doc |-> Empty, by |-> s]]
         /\ allocs' = [allocs EXCEPT ![p] = @ + 1]
         /\ Upd(s, [r EXCEPT !.pc = "write", !.path = p, !.createdOver = fs[p]])
    /\ UNCHANGED <<cache, bodyRuns, built, nruns, aborted>>
    /\ CallsUnchanged

\* line 76: tempfile.NamedTemporaryFile(delete=False, suffix=".pdf") creates,
\* exclusively (O_EXCL), a file under a name no existing file has
CreateTemp(s) ==
    LET r == sess[s] IN
    /\ r.pc = "mkstemp"
    /\ \E p \in Paths :
         /\ fs[p] = NoFile
         /\ fs' = [fs EXCEPT ![p] = [doc |-> Empty, by |-> s]]
         /\ allocs' = [allocs EXCEPT ![p] = @ + 1]
         /\ Upd(s, [r EXCEPT !.pc = "write", !.path = p, !.createdOver = fs[p]])
    /\ UNCHANGED <<cache, bodyRuns, built, nruns, aborted>>
    /\ CallsUnchanged

\* NamedTemporaryFile with delete=True: leaving the with block removes the file
WriteTempDeleteOnClose(s) ==
    LET r == sess[s] IN
    /\ r.pc = "write"
    /\ fs' = [fs EXCEPT ![r.path] = NoFile]
    /\ Upd(s, [r EXCEPT !.pc = "load", !.log = Append(@, "write"),
                        !.wroteTo = IF fs[r.path] = NoFile THEN 0 ELSE fs[r.path].by])
    /\ UNCHANGED <<cache, bodyRuns, built, allocs, nruns, aborted>>
    /\ CallsUnchanged

\* lines 77-78: the uploaded bytes are written through the open descriptor and
\* the file is closed (and kept) when the with block is left
WriteTemp(s) ==
    LET r == sess[s] IN
    /\ r.pc = "write"
    /\ fs' = IF fs[r.path] = NoFile THEN fs
             ELSE [fs EXCEPT ![r.path] = [@ EXCEPT !.doc = r.upload]]
    /\ Upd(s, [r EXCEPT !.pc = "load", !.log = Append(@, "write"),
                        !.wroteTo = IF fs[r.path] = NoFile THEN 0 ELSE fs[r.path].by])
    /\ UNCHANGED <<cache, bodyRuns, built, allocs, nruns, aborted>>
    /\ CallsUnchanged

\* the branch of line 87 is entered whether or not the button was clicked
ButtonAlwaysTrue(r) == TRUE

\* line 86: if st.button("Submit Query")
Button(r) == r.clicked

\* line 84: user_query is the value of the question box in this run
UserQuery(r) == r.question

\* line 81, entering load_and_process_data(tmp_file_path): st.cache_resource
\* (show_spinner left at its default) opens its spinner, an st.* call at
\* which the run can be ended, and looks the path up; a hit returns the stored
\* engine, the spinner is left (the run can be ended there, query_engine not
\* assigned); on a miss the body starts and line 28 reads the file
\* (SimpleDirectoryReader raises when it is absent).  The remote calls of the
\* body are still to come.
LoadCall(s) ==
    LET r == sess[s] IN
    /\ r.pc = "load"
    /\ \/ /\ Upd(s, Stopped(r, "load"))
          /\ UNCHANGED <<bodyRuns, aborted>>
       \/ /\ cache[r.path] # NoEntry
          /\ \/ Upd(s, [r EXCEPT !.pc = "widgets", !.engine = cache[r.path],
                                  !.lookup = "hit", !.log = Append(@, "setup")])
             \/ Upd(s, Stopped([r EXCEPT !.lookup = "hit"], "load"))
          /\ UNCHANGED <<bodyRuns, aborted>>
       \/ /\ cache[r.path] = NoEntry
          /\ bodyRuns' = [bodyRuns EXCEPT ![r.path] = @ + 1]
          /\ IF fs[r.path] = NoFile
             THEN /\ Upd(s, [r EXCEPT !.pc = "aborted", !.raisedAt = "load",
                                      !.lookup = "miss"])
                  /\ aborted' = aborted + 1
             ELSE /\ Upd(s, [r EXCEPT !.pc = "setup", !.lookup = "miss",
                                      !.read = fs[r.path].doc])
                  /\ aborted' = aborted
    /\ UNCHANGED <<fs, cache, built, allocs, nruns>>
    /\ CallsUnchanged

\* lines 31-70 and the return of line 81: the remote calls (embeddings) end;
\* either one raised and the run ends there with nothing stored, or the body
\* returns the router built from what line 28 read and st.cache_resource
\* stores it under the path; then the spinner is left, where the run can be
\* ended with the engine stored and query_engine not assigned
LoadReturn(s) ==
    LET r == sess[s]
        e == BuildEngine(r.path, r.read, bodyRuns[r.path])
    IN
    /\ r.pc = "setup"
    /\ \/ /\ Upd(s, [r EXCEPT !.pc = "aborted", !.raisedAt = "load"])
          /\ aborted' = aborted + 1
          /\ UNCHANGED <<cache, built>>
       \/ /\ \/ Upd(s, [r EXCEPT !.pc = "widgets", !.engine = e,
                                  !.log = Append(@, "setup")])
             \/ Upd(s, Stopped(r, "load"))
          /\ cache' = CacheStore(cache, r.path, e)
          /\ built' = [built EXCEPT ![r.path] = @ + 1]
          /\ aborted' = aborted
    /\ UNCHANGED <<fs, bodyRuns, allocs, nruns>>
    /\ CallsUnchanged

\* lines 84-88: st.text_input returns the text of the question box of this
\* run and st.button whether 'Submit Query' triggered it; when it did,
\* st.spinner is entered and then query_engine.query(user_query): the question
\* is handed to the router, whose selector sends its request to the remote
\* LLM.  The run can be ended by Streamlit at st.text_input
\* (line 84, user_query not assigned), at st.button (line 86, user_query
\* assigned) and at st.spinner (line 87, st.button returned True, no query
\* sent).
Widgets(s) ==
    LET r == sess[s] IN
    /\ r.pc = "widgets"
    /\ \/ Upd(s, Stopped(r, "widgets"))
       \/ \E q \in Questions :
            LET t == [r EXCEPT !.question = q] IN
            \/ Upd(s, Stopped(t, "widgets"))
            \/ \E c \in BOOLEAN :
                 LET w == [t EXCEPT !.clicked = c] IN
                 IF Button(w)
                 THEN \/ Upd(s, Stopped(w, "widgets"))
                      \/ Upd(s, [w EXCEPT !.pc = "select", !.queries = @ + 1,
                                           !.sent = UserQuery(w),
                                           !.log = Append(@, "query")])
                 ELSE Upd(s, [w EXCEPT !.pc = "unlink"])
    /\ SharedUnchanged

\* selector=LLMSingleSelector.from_defaults(): the selector asks the remote
\* LLM for one choice and returns whatever the reply parses to, unchecked:
\* the list of the indices chosen, in the order of the reply, which may hold
\* one entry or several and the same index more than once.  These are the
\* lists a reply can select over n choices; a reply that does not parse,
\* selects nothing or names an index outside the list makes query() raise
\* (the raising outcomes of Select and ToolAnswer).
LLMSingleSelector(n) == UNION {[1..k -> 1..n] : k \in 1..MaxSelections}

\* the response the router returns for a selection: the selected tool's own
\* response when the list has one entry; when it has several, the responses
\* to all of them combined by the router's summarizer (also when they name
\* the same tool)
RouterResponse(e, sel, q) ==
    [tool |-> IF Len(sel) = 1 THEN e.tools[sel[1]] ELSE "combined",
     doc |-> e.doc, question |-> q]

\* the selector's LLM call ends: it raised, or its reply selects no tool of
\* the list (the run ends there), or it returns its selection and the router
\* forwards the question to the tool of the first entry
Select(s) ==
    LET r == sess[s] IN
    /\ r.pc = "select"
    /\ \/ /\ Upd(s, [r EXCEPT !.pc = "aborted", !.raisedAt = "query"])
          /\ aborted' = aborted + 1
       \/ /\ \E sel \in LLMSingleSelector(Len(r.engine.tools)) :
               Upd(s, [r EXCEPT !.pc = "tool", !.selected = sel, !.asked = 1,
                                !.dispatched = {r.engine.tools[sel[1]]}])
          /\ aborted' = aborted
    /\ UNCHANGED <<fs, cache, bodyRuns, built, allocs, nruns>>
    /\ CallsUnchanged

\* the LLM calls of the tool that has the question end: one raised (the run
\* ends there); or the tool answered and the router forwards the question to
\* the tool of the next entry of the selection, which may be the same tool
\* again; or, every entry having been answered, query() returns the response
\* (line 88) and st.write / st.markdown put it into the page (lines 89-94).
\* Streamlit can end the run at st.write / st.markdown before the answer is
\* in the page, and when the with block of st.spinner is left, the answer
\* rendered and line 97 not reached.
ToolAnswer(s) ==
    LET r == sess[s]
        got == [r EXCEPT !.response = RouterResponse(r.engine, r.selected, r.sent)]
        shown == [got EXCEPT !.rendered = got.response, !.log = Append(@, "render")]
    IN
    /\ r.pc = "tool"
    /\ \/ /\ Upd(s, [r EXCEPT !.pc = "aborted", !.raisedAt = "query"])
          /\ aborted' = aborted + 1
       \/ /\ r.asked < Len(r.selected)
          /\ Upd(s, [r EXCEPT !.asked = @ + 1,
                              !.dispatched = @ \cup {r.engine.tools[r.selected[r.asked + 1]]}])
          /\ aborted' = aborted
       \/ /\ r.asked = Len(r.selected)
          /\ \/ Upd(s, Stopped(got, "render"))
             \/ Upd(s, [shown EXCEPT !.pc = "unlink"])
             \/ Upd(s, Stopped(shown, "spinner"))
          /\ aborted' = aborted
    /\ UNCHANGED <<fs, cache, bodyRuns, built, allocs, nruns>>
    /\ CallsUnchanged

\* line 97: os.unlink(tmp_file_path), FileNotFoundError when nothing has the
\* name; what is left of the run is the sidebar (lines 103-116), which touches
\* neither the file nor the cache nor the answer: "done" stands for a run
\* that got past line 97, whether the sidebar is shown in full or Streamlit
\* ends the run at one of its st.sidebar calls
Unlink(s) ==
    LET r == sess[s] IN
    /\ r.pc = "unlink"
    /\ IF fs[r.path] = NoFile
       THEN /\ Upd(s, [r EXCEPT !.pc = "aborted", !.raisedAt = "unlink"])
            /\ aborted' = aborted + 1
            /\ fs' = fs
       ELSE /\ Upd(s, [r EXCEPT !.pc = "done", !.removed = fs[r.path].by,
                                !.log = Append(@, "unlink")])
            /\ aborted' = aborted
            /\ fs' = [fs EXCEPT ![r.path] = NoFile]
    /\ UNCHANGED <<cache, bodyRuns, built, allocs, nruns>>
    /\ CallsUnchanged

\* the else branch also clears the resource cache
InfoClearingCache(s) ==
    LET r == sess[s] IN
    /\ r.pc = "info"
    /\ Upd(s, [r EXCEPT !.pc = "done", !.notice = TRUE])
    /\ cache' = [p \in Paths |-> NoEntry]
    /\ UNCHANGED <<fs, bodyRuns, built, allocs, nruns, aborted>>
    /\ CallsUnchanged

\* line 100: st.info("Please upload a PDF file to begin."), then the sidebar
\* (lines 103-116, "done" as in Unlink); or Streamlit ends the run at st.info
\* before the notice is shown
Info(s) ==
    LET r == sess[s] IN
    /\ r.pc = "info"
    /\ \/ Upd(s, [r EXCEPT !.pc = "done", !.notice = TRUE])
       \/ Upd(s, Stopped(r, "info"))
    /\ SharedUnchanged

\* Each session's script runs on its own thread: the steps of different
\* sessions interleave freely, also inside the calls of lines 81 and 88.
Next ==
    \E s \in Sessions :
        \/ StartRun(s)
        \/ CreateTemp(s)
        \/ WriteTemp(s)
        \/ LoadCall(s)
        \/ LoadReturn(s)
        \/ Widgets(s)
        \/ Select(s)
        \/ ToolAnswer(s)
        \/ Unlink(s)
        \/ Info(s)

Spec == Init /\ [][Next]_vars

\* --------------------------------- load_and_process_data called directly

SessUnchanged == UNCHANGED <<allocs, nruns, aborted, sess>>

\* one call load_and_process_data(p) of a sequence of calls, each returned
\* before the next is made, whatever the file at p is by then
CallLoad(p) ==
    /\ ncalls < MaxCalls
    /\ \E o \in LoadOutcomes(p) :
         /\ LoadEffect(p, o)
         /\ last' = [path |-> p, kind |-> o.kind, engine |-> o.engine,
                     read |-> o.read, was |-> cache[p]]
    /\ ncalls' = ncalls + 1
    /\ fs' = fs
    /\ SessUnchanged

\* the caller writes a file at p before a call (lines 76-78)
PutFile(p, d) ==
    /\ fs[p] = NoFile
    /\ fs' = [fs EXCEPT ![p] = [doc |-> d, by |-> 0]]
    /\ UNCHANGED <<cache, bodyRuns, built, ncalls, last>>
    /\ SessUnchanged

\* the caller unlinks the file at p after a call (line 97)
RemoveFile(p) ==
    /\ fs[p] # NoFile
    /\ fs' = [fs EXCEPT ![p] = NoFile]
    /\ UNCHANGED <<cache, bodyRuns, built, ncalls, last>>
    /\ SessUnchanged

NextCalls ==
    \E p \in Paths :
        \/ CallLoad(p)
        \/ \E d \in Contents : PutFile(p, d)
        \/ RemoveFile(p)

SpecCalls == Init /\ [][NextCalls]_vars

\* ------------------------------------------------------------------ claims

Run(s) == sess[s]
Cached == {p \in Paths : cache[p] # NoEntry}
IsPrefix(a, b) == Len(a) <= Len(b) /\ SubSeq(b, 1, Len(a)) = a
\* the run of session s has a file of its own on disk
OwnFile(s) == fs[Run(s).path] # NoFile /\ fs[Run(s).path].by = s
\* the run is between the creation of its file and its own unlink
HoldsFile(r) == r.pc \in {"write", "load", "setup", "widgets", "select", "tool", "unlink"}
\* the order of the steps of a run with an uploaded file
StepOrder(r) ==
    IF r.clicked THEN <<"write", "setup", "query", "render", "unlink">>
    ELSE <<"write", "setup", "unlink">>

\* C1: a run with an uploaded file in which neither load_and_process_data nor
\* query_engine.query raised has, when it ends, unlinked the temporary file it
\* created, clicked or not; and when no run has raised and none is in progress
\* no temporary file is left on disk.
C1_TempFileDeleted ==
    /\ \A s \in Sessions :
         (Ended(Run(s)) /\ Run(s).upload # None
            /\ Run(s).raisedAt \notin {"load", "query"})
         => /\ Run(s).path # NoPath
            /\ Run(s).removed = s
            /\ ~OwnFile(s)
    /\ (aborted = 0 /\ \A s \in Sessions : ~Live(Run(s)))
         => \A p \in Paths : fs[p] = NoFile

\* C2: a question sent to the router never reaches both tools nor a tool
\* outside the pair, and once query() is over it has reached exactly one of
\* the two tools, the answer rendered being that tool's.
C2_ExactlyOneTool ==
    \A s \in Sessions :
        /\ Cardinality(Run(s).dispatched) <= 1
        /\ Run(s).dispatched \subseteq ToolSet
        /\ (Run(s).queries >= 1 /\ Run(s).pc \notin {"select", "tool"})
             => /\ Cardinality(Run(s).dispatched) = 1
                /\ Run(s).rendered # NoAnswer
                     => Run(s).rendered.tool \in Run(s).dispatched

\* C3: the steps of a run with an uploaded file happen in the order write,
\* setup, (query, render when clicked), unlink; the file written by the run
\* is on disk with the uploaded bytes when load_and_process_data is called,
\* when its body reads it, and until the run unlinks it; no query is sent
\* before the engine is there.
C3_StepOrder ==
    [](
        \A s \in Sessions :
            Run(s).upload # None
            => /\ IsPrefix(Run(s).log, StepOrder(Run(s)))
               /\ Run(s).pc = "done" => Run(s).log = StepOrder(Run(s))
               /\ (HoldsFile(Run(s)) /\ Run(s).pc # "write")
                    => fs[Run(s).path] = [doc |-> Run(s).upload, by |-> s]
               /\ Run(s).read \in {None, Run(s).upload}
               /\ Run(s).raisedAt = "load" => Run(s).read = Run(s).upload
               /\ Run(s).queries > 0 => Run(s).engine # NoEngine
               /\ Run(s).removed # 0
                    => /\ Run(s).engine # NoEngine
                       /\ Run(s).clicked => Run(s).rendered # NoAnswer
    )

C3_Witness ==
    \E s, t \in Sessions :
        /\ Run(s).pc = "done" /\ Run(s).clicked
        /\ Run(s).log = <<"write", "setup", "query", "render", "unlink">>
        /\ Run(t).pc = "setup" /\ Run(t).read = Run(t).upload

\* C4 as stated: whatever the calls, the body of load_and_process_data runs at
\* most once per file_path.
C4_Original == \A p \in Paths : bodyRuns[p] <= 1

\* C4 amended: the body returns an engine at most once per file_path (a call
\* whose body raised stored nothing, and the next call with that path runs
\* the body again); a call with a path already in the cache returns the
\* stored engine without reading the file, whether or not the file exists,
\* and a stored engine is never replaced.
C4_Memoized ==
    /\ [](/\ \A p \in Paths : built[p] <= 1 /\ (cache[p] # NoEntry <=> built[p] = 1)
          /\ (last # NoCall /\ last.was # NoEntry)
               => /\ last.kind = "hit" /\ ~last.read
                  /\ last.engine = last.was
                  /\ cache[last.path] = last.was)
    /\ [][\A p \in Paths : cache[p] # NoEntry
              => cache'[p] = cache[p] /\ bodyRuns'[p] = bodyRuns[p]]_vars

C4_Witness ==
    /\ last # NoCall /\ last.kind = "hit"
    /\ fs[last.path] = NoFile
    /\ \E p \in Paths : bodyRuns[p] >= 2

\* C5: a run without an uploaded file creates no temporary file, does not call
\* load_and_process_data, sends no query, unlinks nothing and shows the
\* notice; none of its steps changes the filesystem or the cache.
C5_NoUploadFrame ==
    /\ [](\A s \in Sessions :
            Run(s).upload = None
            => /\ Run(s).path = NoPath /\ Run(s).engine = NoEngine
               /\ Run(s).lookup = "none" /\ Run(s).queries = 0
               /\ Run(s).rendered = NoAnswer /\ Run(s).removed = 0
               /\ Run(s).log = <<>>
               /\ Run(s).pc = "done" => Run(s).notice)
    /\ [][\A s \in Sessions :
            (sess'[s] # sess[s] /\ sess'[s].upload = None)
            => UNCHANGED <<fs, cache, bodyRuns, built, allocs, aborted>>]_vars

C5_Witness ==
    \E s \in Sessions :
        /\ Run(s).pc = "done" /\ Run(s).upload = None /\ Run(s).notice
        /\ \E p \in Paths : cache[p] # NoEntry
        /\ \E p \in Paths : fs[p] # NoFile

\* C6: an answer rendered in a run comes from an engine built from the file
\* uploaded in that run.
C6_AnswerFromCurrentUpload ==
    \A s \in Sessions :
        Run(s).rendered # NoAnswer => Run(s).rendered.doc = Run(s).upload

\* C7 as stated: at most one query per run, only with an upload and a click,
\* carrying the text of the question box; at the end of a run an answer is
\* rendered iff a query was sent; a run with an upload and no click that
\* gets to line 97 has sent nothing, rendered nothing, and has created,
\* processed and (at its end) deleted its file.
C7_Original ==
    \A s \in Sessions :
        /\ Run(s).queries <= 1
        /\ Run(s).queries = 1
             => Run(s).upload # None /\ Run(s).clicked /\ Run(s).sent = Run(s).question
        /\ Ended(Run(s)) => (Run(s).rendered # NoAnswer <=> Run(s).queries = 1)
        /\ (Run(s).upload # None /\ Run(s).pc \in {"unlink", "done"} /\ ~Run(s).clicked)
             => /\ Run(s).queries = 0 /\ Run(s).rendered = NoAnswer
                /\ Run(s).engine # NoEngine
                /\ Run(s).pc = "done"
                     => Run(s).log = <<"write", "setup", "unlink">> /\ Run(s).removed = s

\* C7 amended: as stated, except that at the end of a run an answer is
\* rendered iff a query was sent, query() did not raise and the run was not
\* ended by Streamlit at st.write / st.markdown (lines 89-90) before the
\* answer was in the page; the answer rendered is the response of query() to
\* the question sent.
C7_QueryOncePerClick ==
    [](
        \A s \in Sessions :
            /\ Run(s).queries <= 1
            /\ Run(s).queries = 1
                 => Run(s).upload # None /\ Run(s).clicked /\ Run(s).sent = Run(s).question
            /\ Ended(Run(s))
                 => /\ Run(s).rendered # NoAnswer
                         <=> (Run(s).queries = 1 /\ Run(s).raisedAt # "query"
                                /\ Run(s).stoppedAt # "render")
                    /\ Run(s).rendered # NoAnswer
                         => /\ Run(s).rendered = Run(s).response
                            /\ Run(s).rendered.question = Run(s).sent
            /\ (Run(s).upload # None /\ Run(s).pc \in {"unlink", "done"} /\ ~Run(s).clicked)
                 => /\ Run(s).queries = 0 /\ Run(s).rendered = NoAnswer
                    /\ Run(s).engine # NoEngine
                    /\ Run(s).pc = "done"
                         => Run(s).log = <<"write", "setup", "unlink">> /\ Run(s).removed = s
    )

C7_Witness ==
    \E s, t \in Sessions :
        /\ Run(s).pc = "done" /\ Run(s).queries = 1
        /\ Run(s).sent # DefaultQuestion /\ Run(s).rendered # NoAnswer
        /\ Run(t).pc = "done" /\ Run(t).upload # None /\ Run(t).queries = 0

\* C8: a run in which load_and_process_data or query() raised rendered no
\* answer, did not unlink, and its temporary file is still on disk; a setup
\* that raised left no cache entry; the temporary files on disk that belong
\* to no run in progress are as many as the runs that raised.
C8_RaiseLeaksFile ==
    /\ \A s \in Sessions :
         (Run(s).pc = "aborted" /\ Run(s).raisedAt \in {"load", "query"})
         => /\ Run(s).rendered = NoAnswer
            /\ Run(s).removed = 0
            /\ fs[Run(s).path] = [doc |-> Run(s).upload, by |-> s]
            /\ Run(s).raisedAt = "load"
                 => Run(s).engine = NoEngine /\ cache[Run(s).path] = NoEntry
    /\ Cardinality({p \in Paths : /\ fs[p] # NoFile
                                  /\ ~\E s \in Sessions :
                                        Live(Run(s)) /\ Run(s).path = p})
         = aborted

\* C9: a call of load_and_process_data hits the cache only for a temporary
\* name that had been handed out before, so with a first-time name the body
\* runs; the cached engines are exactly the names whose setup returned, and
\* no entry is ever removed or replaced.
C9_CacheGrowsPerPath ==
    /\ [](/\ \A s \in Sessions :
               /\ Run(s).lookup = "hit" => allocs[Run(s).path] >= 2
               /\ Run(s).lookup = "miss" => bodyRuns[Run(s).path] >= 1
               /\ Run(s).engine # NoEngine => Run(s).lookup \in {"hit", "miss"}
          /\ \A p \in Paths : cache[p] # NoEntry <=> built[p] >= 1
          /\ Cardinality(Cached) = Cardinality({p \in Paths : built[p] >= 1}))
    /\ [][\A p \in Paths : cache[p] # NoEntry => cache'[p] = cache[p]]_vars

C9_Witness ==
    \E s \in Sessions :
        /\ Run(s).clicked /\ Run(s).lookup = "miss" /\ Run(s).engine # NoEngine
        /\ allocs[Run(s).path] = 1
        /\ \E p \in Paths : /\ p # Run(s).path /\ cache[p] # NoEntry
                            /\ cache[p].doc = Run(s).upload
        /\ Cardinality(Cached) = 2

\* C10: with sessions interleaved, every temporary file is created under a
\* name no file had, a run writes and unlinks only the file it created, its
\* file stays intact from creation to its own unlink, two runs in progress
\* never hold the same name, and os.unlink never fails.
C10_NoInterference ==
    [](
        /\ \A s \in Sessions :
             /\ Run(s).createdOver = NoFile
             /\ Run(s).wroteTo \in {0, s}
             /\ Run(s).log # <<>> => Run(s).wroteTo = s
             /\ Run(s).removed \in {0, s}
             /\ Run(s).raisedAt # "unlink"
             /\ HoldsFile(Run(s)) => OwnFile(s)
        /\ \A s, t \in Sessions :
             (s # t /\ Live(Run(s)) /\ Live(Run(t)) /\ Run(s).path # NoPath)
             => Run(s).path # Run(t).path
    )

C10_Witness ==
    \E s, t \in Sessions :
        /\ s # t
        /\ Run(s).pc = "setup" /\ Run(t).pc \in {"select", "tool", "unlink"}
        /\ cache[Run(t).path] # NoEntry
====
